---------------------------- MODULE Spec2Model ----------------------------
(***************************************************************************)
(* Model of findmypi.py, the local-network scanner: main, the probing pool *)
(* of scan_local_network, the ARP resolver and the MAC-prefix classifier.  *)
(*                                                                         *)
(* Python strings are sequences of one-character strings, so that split,   *)
(* join, upper, replace, slicing and startswith are computed and not       *)
(* assumed.  None is the one-element sequence <<"<None>">>, which no       *)
(* string equals.                                                          *)
(***************************************************************************)
EXTENDS Integers, Sequences, FiniteSets, TLC

(***************************************************************************)
(* Bounds.  The source scans hosts start_ip..end_ip = 1..254; the model    *)
(* scans 1..MaxHost and draws the pool size from 0..MaxWorkers.            *)
(***************************************************************************)
MaxHost == 3

MaxWorkers == 2

(***************************************************************************)
(* String helpers (str methods used by the source).                        *)
(***************************************************************************)
None == <<"<None>">>

\* stands for "the call raised" where a function's result is a value
Raised == <<"<raised>">>

Truthy(x) == x # None /\ x # <<>>

Digit(d) ==
    CASE d = 0 -> "0" [] d = 1 -> "1" [] d = 2 -> "2" [] d = 3 -> "3"
      [] d = 4 -> "4" [] d = 5 -> "5" [] d = 6 -> "6" [] d = 7 -> "7"
      [] d = 8 -> "8" [] d = 9 -> "9"

RECURSIVE IntToStr(_)
IntToStr(n) == IF n < 10 THEN <<Digit(n)>>
               ELSE IntToStr(n \div 10) \o <<Digit(n % 10)>>

\* s.split(sep) for a one-character separator
RECURSIVE SplitFrom(_, _, _, _)
SplitFrom(s, sep, i, cur) ==
    IF i > Len(s) THEN <<cur>>
    ELSE IF s[i] = sep THEN <<cur>> \o SplitFrom(s, sep, i + 1, <<>>)
    ELSE SplitFrom(s, sep, i + 1, Append(cur, s[i]))

Split(s, sep) == SplitFrom(s, sep, 1, <<>>)

\* sep.join(parts)
RECURSIVE Join(_, _)
Join(parts, sep) ==
    IF Len(parts) = 0 THEN <<>>
    ELSE IF Len(parts) = 1 THEN parts[1]
    ELSE parts[1] \o <<sep>> \o Join(Tail(parts), sep)

\* xs[:-1]
DropLast(xs) == SubSeq(xs, 1, Len(xs) - 1)

\* s[:n]
Prefix(s, n) == SubSeq(s, 1, IF Len(s) < n THEN Len(s) ELSE n)

\* s.replace(a, b) for one-character a and b
Replace(s, a, b) == [i \in 1..Len(s) |-> IF s[i] = a THEN b ELSE s[i]]

UpperChar(c) ==
    CASE c = "a" -> "A" [] c = "b" -> "B" [] c = "c" -> "C" [] c = "d" -> "D"
      [] c = "e" -> "E" [] c = "f" -> "F" [] c = "z" -> "Z" [] OTHER -> c

\* s.upper(), over the characters the model's strings are made of
Upper(s) == [i \in 1..Len(s) |-> UpperChar(s[i])]

\* s.startswith(p)
StartsWith(s, p) == Len(s) >= Len(p) /\ SubSeq(s, 1, Len(p)) = p

(***************************************************************************)
(* Inputs and environment.                                                 *)
(***************************************************************************)
\* the machine's own address, as socket.gethostbyname(hostname) gives it
OwnIp == <<"1","0",".","0",".","0",".","2">>

\* values of the base_ip argument: omitted (''), a three-octet prefix, a
\* dotted quad naming the network, and the machine's own address
BaseArgs ==
    { <<>>,
      <<"1","0",".","0",".","0">>,
      <<"1","0",".","0",".","0",".","0">>,
      OwnIp }

WorkerArgs == 0..MaxWorkers

\* MAC addresses as Windows arp prints them (lower case, hyphens)
PiMacRaw == <<"b","8","-","2","7","-","e","b","-","1","1","-","2","2","-","3","3">>

OtherMacRaw == <<"0","0","-","1","1","-","2","2","-","3","3","-","4","4","-","5","5">>

ArpRow(ip, mac, type) == [ip |-> ip, mac |-> mac, type |-> type]

\* what `arp -a ip` can do: fail (missing tool, non-zero exit, undecodable
\* output), or print the table rows of the queried address: none, one, or
\* two (the address seen on two interfaces)
ArpOutputs(ip) ==
    { [status |-> "error", rows |-> <<>>],
      [status |-> "ok", rows |-> <<>>],
      [status |-> "ok", rows |-> <<ArpRow(ip, PiMacRaw, "static")>>],
      [status |-> "ok", rows |-> <<ArpRow(ip, PiMacRaw, "dynamic")>>],
      [status |-> "ok", rows |-> <<ArpRow(ip, OtherMacRaw, "static"),
                                   ArpRow(ip, PiMacRaw, "dynamic")>>],
      [status |-> "ok", rows |-> <<ArpRow(ip, OtherMacRaw, "dynamic"),
                                   ArpRow(ip, PiMacRaw, "dynamic")>>] }

\* what one `ping -n 1 -w 1 ip` under check_output(timeout=2) can do
PingOutcomes ==
    { "reply", "unreachable_text", "called_process_error",
      "timeout_expired", "os_error" }

\* what socket.gethostbyaddr can do for a string argument
HostnameOutcomes == { "found", "herror", "other_error" }

(***************************************************************************)
(* Program constants and pure functions of findmypi.py.                    *)
(***************************************************************************)
RASPBERRY_PI_MAC_PREFIXES ==
    << <<"2","8",":","C","D",":","C","1">>,
       <<"2","C",":","C","F",":","6","7">>,
       <<"B","8",":","2","7",":","E","B">>,
       <<"D","8",":","3","A",":","D","D">>,
       <<"D","C",":","A","6",":","3","2">>,
       <<"E","4",":","5","F",":","0","1">> >>

start_ip == 1

\* 254 in the source; scaled to the model's bound
end_ip == MaxHost

\* get_current_ip: the local address, or None when the lookup raises
get_current_ip(ok) == IF ok THEN OwnIp ELSE None

\* get_hostname: "raised" when gethostbyaddr raises anything but socket.herror
\* (a None argument raises TypeError); otherwise a hostname or None
get_hostname(ip, outcome) ==
    IF ip = None \/ outcome = "other_error" THEN "raised"
    ELSE IF outcome = "herror" THEN "none"
    ELSE "name"

\* '.'.join(base_ip.split('.')[:-1])
StripLastOctet(ip) == Join(DropLast(Split(ip, ".")), ".")

\* faulty variant of Enumerate: range(start_ip, end_ip), the last host missing
EnumerateShort(lo, hi, base) ==
    [k \in 1..(hi - lo) |-> base \o <<".">> \o IntToStr(lo + k - 1)]

\* [f'{base_ip}.{i}' for i in range(start_ip, end_ip + 1)]
Enumerate(lo, hi, base) ==
    [k \in 1..(hi - lo + 1) |-> base \o <<".">> \o IntToStr(lo + k - 1)]

\* faulty variant of ping_test: only CalledProcessError is caught (no bare
\* except), so a timeout or an OS error leaves the function
ping_test_uncaught(ip, outcome) ==
    CASE outcome = "called_process_error" -> None
      [] outcome \in {"timeout_expired", "os_error"} -> Raised
      [] outcome = "unreachable_text" -> None
      [] OTHER -> ip

\* faulty variant of ping_test: the output is not searched for "unreachable"
ping_test_ignores_text(ip, outcome) ==
    CASE outcome = "called_process_error" -> None
      [] outcome \in {"timeout_expired", "os_error"} -> None
      [] OTHER -> ip

\* ping_test: the address when the command succeeded and did not print
\* "unreachable", None on every other path
ping_test(ip, outcome) ==
    CASE outcome = "called_process_error" -> None
      [] outcome \in {"timeout_expired", "os_error"} -> None
      [] outcome = "unreachable_text" -> None
      [] OTHER -> ip

\* the rows kept by the loop of get_mac_address
RECURSIVE DynamicEntries(_)
DynamicEntries(rows) ==
    IF rows = <<>> THEN <<>>
    ELSE IF Head(rows).type = "dynamic"
         THEN << <<Head(rows).ip, Replace(Head(rows).mac, "-", ":")>> >>
              \o DynamicEntries(Tail(rows))
         ELSE DynamicEntries(Tail(rows))

\* get_mac_address: the (ip, mac) pairs of the dynamic rows, [] on any error
get_mac_address(out) ==
    IF out.status = "error" THEN <<>> ELSE DynamicEntries(out.rows)

\* faulty variant of is_raspberry_pi: mac.upper() left out
is_raspberry_pi_case_sensitive(mac) ==
    IF ~Truthy(mac) THEN FALSE
    ELSE LET mac_prefix == Prefix(mac, 8)
         IN \E k \in 1..Len(RASPBERRY_PI_MAC_PREFIXES) :
                StartsWith(mac_prefix, RASPBERRY_PI_MAC_PREFIXES[k])

\* is_raspberry_pi
is_raspberry_pi(mac) ==
    IF ~Truthy(mac) THEN FALSE
    ELSE LET mac_prefix == Prefix(Upper(mac), 8)
         IN \E k \in 1..Len(RASPBERRY_PI_MAC_PREFIXES) :
                StartsWith(mac_prefix, RASPBERRY_PI_MAC_PREFIXES[k])

\* [ip for ip in reachable_ips if ip != current_ip]
ExcludeCurrent(ips, cur) == SelectSeq(ips, LAMBDA ip : ip # cur)

\* [ip for ip, mac in devices if is_raspberry_pi(mac)]
RECURSIVE RpiDevices(_)
RpiDevices(devs) ==
    IF devs = <<>> THEN <<>>
    ELSE (IF is_raspberry_pi(Head(devs)[2]) THEN <<Head(devs)[1]>> ELSE <<>>)
         \o RpiDevices(Tail(devs))

(***************************************************************************)
(* State.                                                                  *)
(***************************************************************************)
VARIABLES
    base_arg,          \* main's base_ip argument ('' when omitted)
    workers,           \* main's --workers option
    pc,                \* main thread: start, derive, scan, submit, collect,
                       \*   resolve, done, exited
    exit_kind,         \* "none", "exception", "typer.Exit", "returned"
    current_ip,        \* main's current_ip
    base_ip,           \* main's base_ip after line 112-118
    ip_addresses,      \* scan_local_network's ip_addresses
    fstate,            \* per future: new, queued, running, finished
    fresult,           \* per future: the value ping_test returned
    waiter,            \* as_completed has installed its waiter
    early_left,        \* futures found finished by as_completed, not yet yielded
    finished_futures,  \* the waiter's list of futures completed since
    yielded,           \* futures as_completed has yielded
    reachable_ips,     \* reachable_ips (scan_local_network's, then main's)
    devices,           \* main's devices
    rpi_devices,       \* main's rpi_devices
    report,            \* what main printed at the end: none, found, nothing
    ping_log,          \* history: addresses handed to ping, in start order
    reach_order,       \* history: addresses whose ping_test returned them,
                       \*   in completion order
    replied,           \* history: addresses whose ping answered and did not
                       \*   print "unreachable"
    early,             \* history: futures found finished by as_completed
    scan_result,       \* history: the list scan_local_network returned
    arp_log,           \* history: per get_mac_address call, ip and result
    cl_mac,            \* classifier harness: the input
    cl_verdicts        \* classifier harness: the verdicts of the calls made

vars == << base_arg, workers, pc, exit_kind, current_ip, base_ip, ip_addresses,
           fstate, fresult, waiter, early_left, finished_futures, yielded,
           reachable_ips, devices, rpi_devices, report, ping_log, reach_order,
           replied, early, scan_result, arp_log, cl_mac, cl_verdicts >>

mainVars == << pc, exit_kind, current_ip, base_ip >>

poolVars == << ip_addresses, fstate, fresult, waiter, early_left,
               finished_futures, yielded, ping_log, reach_order, replied,
               early >>

resolveVars == << devices, rpi_devices, report, arp_log >>

inputVars == << base_arg, workers >>

classifierVars == << cl_mac, cl_verdicts >>

Futures == DOMAIN fstate

InState(st) == {i \in Futures : fstate[i] = st}

Idle ==
    /\ exit_kind = "none"
    /\ current_ip = None
    /\ base_ip = None
    /\ ip_addresses = <<>>
    /\ fstate = <<>>
    /\ fresult = <<>>
    /\ waiter = FALSE
    /\ early_left = {}
    /\ finished_futures = <<>>
    /\ yielded = {}
    /\ reachable_ips = <<>>
    /\ devices = <<>>
    /\ rpi_devices = <<>>
    /\ report = "none"
    /\ ping_log = <<>>
    /\ reach_order = <<>>
    /\ replied = {}
    /\ early = {}
    /\ scan_result = <<>>
    /\ arp_log = <<>>

Init ==
    /\ base_arg \in BaseArgs
    /\ workers \in WorkerArgs
    /\ pc = "start"
    /\ Idle
    /\ cl_mac = None
    /\ cl_verdicts = <<>>

(***************************************************************************)
(* main, lines 108-118.                                                    *)
(***************************************************************************)
\* lines 108-110: current_ip, and the hostname lookup that is printed
ResolveCurrent ==
    /\ pc = "start"
    /\ \E ok \in BOOLEAN, h \in HostnameOutcomes :
         LET cur == IF ~Truthy(base_arg) THEN get_current_ip(ok) ELSE base_arg
         IN /\ current_ip' = cur
            /\ IF get_hostname(cur, h) = "raised"
               THEN pc' = "exited" /\ exit_kind' = "exception"
               ELSE pc' = "derive" /\ UNCHANGED exit_kind
    /\ UNCHANGED << base_ip, inputVars, poolVars, reachable_ips, scan_result,
                    resolveVars, classifierVars >>

\* lines 112-118: None.split raises before the `is None` test is reached
DeriveBase ==
    /\ pc = "derive"
    /\ \E ok \in BOOLEAN :
         LET got == IF ~Truthy(base_arg) THEN get_current_ip(ok) ELSE base_arg
         IN IF got = None
            THEN pc' = "exited" /\ exit_kind' = "exception" /\ UNCHANGED base_ip
            ELSE LET stripped == StripLastOctet(got)
                 IN IF ~Truthy(base_arg) /\ stripped = None
                    THEN /\ pc' = "exited"
                         /\ exit_kind' = "typer.Exit"
                         /\ base_ip' = stripped
                    ELSE /\ pc' = "scan"
                         /\ base_ip' = stripped
                         /\ UNCHANGED exit_kind
    /\ UNCHANGED << current_ip, inputVars, poolVars, reachable_ips, scan_result,
                    resolveVars, classifierVars >>

(***************************************************************************)
(* scan_local_network, lines 86-97, and the pool it runs.                  *)
(***************************************************************************)
\* lines 121-126, 87-90: the address list and the pool; ThreadPoolExecutor
\* raises ValueError for max_workers <= 0
EnterScan ==
    /\ pc = "scan"
    /\ LET ips == Enumerate(start_ip, end_ip, base_ip)
       IN /\ ip_addresses' = ips
          /\ reachable_ips' = <<>>
          /\ IF workers <= 0
             THEN /\ pc' = "exited"
                  /\ exit_kind' = "exception"
                  /\ UNCHANGED << fstate, fresult >>
             ELSE /\ pc' = "submit"
                  /\ fstate' = [i \in 1..Len(ips) |-> "new"]
                  /\ fresult' = [i \in 1..Len(ips) |-> None]
                  /\ UNCHANGED exit_kind
    /\ UNCHANGED << current_ip, base_ip, inputVars, waiter, early_left,
                    finished_futures, yielded, ping_log, reach_order, replied, early,
                    scan_result, resolveVars, classifierVars >>

\* line 91: executor.submit(ping_test, ip), one address per iteration
Submit ==
    /\ pc = "submit"
    /\ \E i \in InState("new") :
         /\ \A j \in InState("new") : i <= j
         /\ fstate' = [fstate EXCEPT ![i] = "queued"]
    /\ UNCHANGED << mainVars, inputVars, ip_addresses, fresult, waiter,
                    early_left, finished_futures, yielded, ping_log,
                    reach_order, replied, early, reachable_ips, scan_result,
                    resolveVars, classifierVars >>

\* faulty variant of CanStart: a thread per work item, no max_workers limit
CanStartUnbounded(i) ==
    /\ fstate[i] = "queued"
    /\ \A j \in InState("queued") : i <= j

\* a pool thread may take a work item: the queue is first in first out and
\* the pool holds at most max_workers threads
CanStart(i) ==
    /\ fstate[i] = "queued"
    /\ \A j \in InState("queued") : i <= j
    /\ Cardinality(InState("running")) < workers

\* a pool thread takes the next work item and calls ping_test(ip)
StartProbe ==
    /\ pc \in {"submit", "collect"}
    /\ \E i \in Futures :
         /\ CanStart(i)
         /\ fstate' = [fstate EXCEPT ![i] = "running"]
         /\ ping_log' = Append(ping_log, ip_addresses[i])
    /\ UNCHANGED << mainVars, inputVars, ip_addresses, fresult, waiter,
                    early_left, finished_futures, yielded, reach_order, replied, early,
                    reachable_ips, scan_result, resolveVars, classifierVars >>

\* the completion list after future i is set: the waiter, once installed, is
\* told of every completion in order
NotifyWaiter(installed, queue, i) ==
    IF installed THEN Append(queue, i) ELSE queue

\* ping_test returns and the future is set
FinishProbe ==
    /\ pc \in {"submit", "collect"}
    /\ \E i \in InState("running"), outcome \in PingOutcomes :
         LET r == ping_test(ip_addresses[i], outcome)
         IN /\ fstate' = [fstate EXCEPT ![i] = "finished"]
            /\ fresult' = [fresult EXCEPT ![i] = r]
            /\ finished_futures' = NotifyWaiter(waiter, finished_futures, i)
            /\ reach_order' = IF Truthy(r) /\ r # Raised
                              THEN Append(reach_order, r)
                              ELSE reach_order
            /\ replied' = IF outcome = "reply"
                          THEN replied \cup {ip_addresses[i]}
                          ELSE replied
    /\ UNCHANGED << mainVars, inputVars, ip_addresses, waiter, early_left,
                    yielded, ping_log, early, reachable_ips, scan_result,
                    resolveVars, classifierVars >>

\* line 92, first step of as_completed(futures): the futures already finished
\* are set aside (a set: they are yielded first, in no particular order) and
\* the waiter is installed
AsCompleted ==
    /\ pc = "submit"
    /\ InState("new") = {}
    /\ pc' = "collect"
    /\ waiter' = TRUE
    /\ early_left' = InState("finished")
    /\ early' = InState("finished")
    /\ UNCHANGED << exit_kind, current_ip, base_ip, inputVars, ip_addresses,
                    fstate, fresult, finished_futures, yielded, ping_log,
                    reach_order, replied, reachable_ips, scan_result, resolveVars,
                    classifierVars >>

\* faulty variant of CollectResult: the list is replaced, not appended to
CollectResultOverwrite(ips, ip) == IF Truthy(ip) THEN <<ip>> ELSE ips

\* lines 93-95: ip = future.result(); if ip: reachable_ips.append(ip)
CollectResult(ips, ip) == IF Truthy(ip) THEN Append(ips, ip) ELSE ips

\* line 93: future.result() raises in the main thread what the call raised
\* in the pool thread; nothing in scan_local_network or main catches it
Collect(i) ==
    IF fresult[i] = Raised
    THEN /\ pc' = "exited"
         /\ exit_kind' = "exception"
         /\ UNCHANGED reachable_ips
    ELSE /\ reachable_ips' = CollectResult(reachable_ips, fresult[i])
         /\ UNCHANGED << pc, exit_kind >>

\* lines 92-95 for a future that had finished before as_completed was called
YieldEarly ==
    /\ pc = "collect"
    /\ \E i \in early_left :
         /\ early_left' = early_left \ {i}
         /\ yielded' = yielded \cup {i}
         /\ Collect(i)
    /\ UNCHANGED << current_ip, base_ip, inputVars, ip_addresses, fstate, fresult, waiter,
                    finished_futures, ping_log, reach_order, replied, early,
                    scan_result, resolveVars, classifierVars >>

\* lines 92-95 for the oldest future the waiter was told of
YieldCompleted ==
    /\ pc = "collect"
    /\ early_left = {}
    /\ finished_futures # <<>>
    /\ LET i == Head(finished_futures)
       IN /\ finished_futures' = Tail(finished_futures)
          /\ yielded' = yielded \cup {i}
          /\ Collect(i)
    /\ UNCHANGED << current_ip, base_ip, inputVars, ip_addresses, fstate, fresult, waiter,
                    early_left, ping_log, reach_order, replied, early, scan_result,
                    resolveVars, classifierVars >>

\* lines 96-97, 126-127: every future was yielded; the pool shuts down, the
\* list is returned and main drops current_ip from it
ScanReturn ==
    /\ pc = "collect"
    /\ yielded = Futures
    /\ pc' = "resolve"
    /\ scan_result' = reachable_ips
    /\ reachable_ips' = ExcludeCurrent(reachable_ips, current_ip)
    /\ UNCHANGED << exit_kind, current_ip, base_ip, inputVars, poolVars,
                    resolveVars, classifierVars >>

(***************************************************************************)
(* main, lines 129-143.                                                    *)
(***************************************************************************)
\* faulty variant of AppendDevice: len(mac_address) > 1
AppendDeviceOffByOne(devs, mac_address) ==
    IF Len(mac_address) > 1 THEN Append(devs, mac_address[1]) ELSE devs

\* lines 132-134
AppendDevice(devs, mac_address) ==
    IF Len(mac_address) > 0 THEN Append(devs, mac_address[1]) ELSE devs

\* lines 130-134, one iteration
Resolve ==
    /\ pc = "resolve"
    /\ Len(arp_log) < Len(reachable_ips)
    /\ LET ip == reachable_ips[Len(arp_log) + 1]
       IN \E out \in ArpOutputs(ip) :
            LET mac_address == get_mac_address(out)
            IN /\ devices' = AppendDevice(devices, mac_address)
               /\ arp_log' = Append(arp_log, [ip |-> ip, found |-> mac_address])
    /\ UNCHANGED << mainVars, inputVars, poolVars, reachable_ips, scan_result,
                    rpi_devices, report, classifierVars >>

\* lines 136-143
Report ==
    /\ pc = "resolve"
    /\ Len(arp_log) = Len(reachable_ips)
    /\ pc' = "done"
    /\ exit_kind' = "returned"
    /\ rpi_devices' = RpiDevices(devices)
    /\ report' = IF RpiDevices(devices) # <<>> THEN "found" ELSE "nothing"
    /\ UNCHANGED << current_ip, base_ip, inputVars, poolVars, reachable_ips,
                    scan_result, devices, arp_log, classifierVars >>

Next ==
    \/ ResolveCurrent
    \/ DeriveBase
    \/ EnterScan
    \/ Submit
    \/ StartProbe
    \/ FinishProbe
    \/ AsCompleted
    \/ YieldEarly
    \/ YieldCompleted
    \/ ScanReturn
    \/ Resolve
    \/ Report

Spec == Init /\ [][Next]_vars

(***************************************************************************)
(* Harness for is_raspberry_pi: MAC strings built from three leading       *)
(* octets, a separator, a letter case and a remainder.                     *)
(***************************************************************************)
\* the six vendor prefixes and three others (one of them a near miss)
LeadingOctets ==
    { << <<"2","8">>, <<"c","d">>, <<"c","1">> >>,
      << <<"2","c">>, <<"c","f">>, <<"6","7">> >>,
      << <<"b","8">>, <<"2","7">>, <<"e","b">> >>,
      << <<"d","8">>, <<"3","a">>, <<"d","d">> >>,
      << <<"d","c">>, <<"a","6">>, <<"3","2">> >>,
      << <<"e","4">>, <<"5","f">>, <<"0","1">> >>,
      << <<"0","0">>, <<"1","1">>, <<"2","2">> >>,
      << <<"2","8">>, <<"c","d">>, <<"c","2">> >>,
      << <<"b","9">>, <<"2","7">>, <<"e","b">> >> }

Separators == { ":", "-" }

LetterCases == { "lower", "upper", "mixed" }

\* the rest of the string after the first eight characters: three more
\* octets, nothing, or text that is no MAC
Remainders == { "octets", "none", "garbage", "cut" }

Cased(s, c) ==
    CASE c = "lower" -> s
      [] c = "upper" -> Upper(s)
      [] c = "mixed" -> [i \in 1..Len(s) |-> IF i % 2 = 1 THEN UpperChar(s[i]) ELSE s[i]]

BuildMac(o, sep, c, rest) ==
    LET head == Cased(o[1] \o <<sep>> \o o[2] \o <<sep>> \o o[3], c)
    IN CASE rest = "octets" ->
              head \o <<sep, "0", "0", sep, "0", "0", sep, "0", "1">>
         [] rest = "none" -> head
         [] rest = "garbage" -> head \o <<"z", "z">>
         [] rest = "cut" -> SubSeq(head, 1, 7)

ExampleOtherMac ==
    <<"0","0",":","1","1",":","2","2",":","3","3",":","4","4",":","5","5">>

MacInputs ==
    { None, <<>>, ExampleOtherMac }
    \cup { BuildMac(o, sep, c, rest) :
             o \in LeadingOctets, sep \in Separators,
             c \in LetterCases, rest \in Remainders }

MaxCalls == 2

ClassifyInit ==
    /\ base_arg = <<>>
    /\ workers = 0
    /\ pc = "classifier"
    /\ Idle
    /\ cl_mac \in MacInputs
    /\ cl_verdicts = <<>>

\* one call of is_raspberry_pi(cl_mac)
ClassifyCall ==
    /\ pc = "classifier"
    /\ Len(cl_verdicts) < MaxCalls
    /\ cl_verdicts' = Append(cl_verdicts, is_raspberry_pi(cl_mac))
    /\ UNCHANGED << mainVars, inputVars, poolVars, reachable_ips, scan_result,
                    resolveVars, cl_mac >>

ClassifyNext == ClassifyCall

ClassifySpec == ClassifyInit /\ [][ClassifyNext]_vars

(***************************************************************************)
(* Vocabulary of the properties.                                           *)
(***************************************************************************)
\* n in decimal, for n < 1000
Decimal(n) ==
    IF n < 10 THEN <<Digit(n)>>
    ELSE IF n < 100 THEN <<Digit(n \div 10), Digit(n % 10)>>
    ELSE <<Digit(n \div 100), Digit((n \div 10) % 10), Digit(n % 10)>>

\* the address base.n of the scan in progress
ScanAddress(n) == base_ip \o <<".">> \o Decimal(n)

ScanRange == {ScanAddress(n) : n \in start_ip..end_ip}

Elems(xs) == {xs[k] : k \in 1..Len(xs)}

NoDuplicates(xs) == \A j, k \in 1..Len(xs) : j # k => xs[j] # xs[k]

\* scan_local_network has returned
Scanned == pc \in {"resolve", "done"}

\* addresses whose ping_test returned None
Unreachable == {ip_addresses[i] : i \in {j \in Futures : fstate[j] = "finished" /\ fresult[j] = None}}

DeviceIps == {devices[k][1] : k \in 1..Len(devices)}

Arg_10_0_0 == <<"1","0",".","0",".","0">>

Host_10_0_0_5 == <<"1","0",".","0",".","0",".","5">>

PiMac == <<"b","8",":","2","7",":","e","b",":","1","1",":","2","2",":","3","3">>

(***************************************************************************)
(* C1.  The local machine's own address never appears in the final device  *)
(* list, whether the base argument is given or omitted, even when the      *)
(* address answers its own probe.                                          *)
(***************************************************************************)
C1_OwnAddressExcluded ==
    pc = "done" =>
        /\ OwnIp \notin DeviceIps
        /\ OwnIp \notin Elems(rpi_devices)

RECURSIVE FirstFound(_)
FirstFound(log) ==
    IF log = <<>> THEN <<>>
    ELSE (IF Head(log).found # <<>> THEN <<Head(log).found[1]>> ELSE <<>>)
         \o FirstFound(Tail(log))

C3_ExitsEarly ==
    (~Truthy(base_arg) /\ current_ip = None /\ pc # "start") =>
        /\ pc = "exited"
        /\ exit_kind = "typer.Exit"
        /\ ping_log = <<>>
        /\ arp_log = <<>>

(***************************************************************************)
(* C4.  main with base "10.0.0", where only 10.0.0.5 answers and its ARP   *)
(* entry is dynamic with MAC b8:27:eb:11:22:33, probes addresses 10.0.0.n  *)
(* only and reports exactly the device 10.0.0.5.                           *)
(***************************************************************************)
C4_Scenario ==
    ( /\ pc = "done"
      /\ base_arg = Arg_10_0_0
      /\ replied \subseteq {Host_10_0_0_5}
      /\ \A k \in 1..Len(arp_log) :
           arp_log[k].ip = Host_10_0_0_5 =>
              arp_log[k].found = << <<Host_10_0_0_5, PiMac>> >> )
    =>
    ( /\ rpi_devices = <<Host_10_0_0_5>>
      /\ \A k \in 1..Len(ping_log) :
           \E n \in start_ip..end_ip :
              ping_log[k] = Arg_10_0_0 \o <<".">> \o Decimal(n) )

(***************************************************************************)
(* C5.  The scan hands to ping exactly the addresses base.n for n from     *)
(* start_ip to end_ip, each once: never an address outside the range,      *)
(* never an address twice (a failed probe is not retried), and none is     *)
(* missing when the scan returns.                                          *)
(***************************************************************************)
C5_ProbedExactlyOnce ==
    /\ NoDuplicates(ping_log)
    /\ Elems(ping_log) \subseteq ScanRange
    /\ Scanned =>
         /\ \A n \in start_ip..end_ip : ScanAddress(n) \in Elems(ping_log)
         /\ Len(ping_log) = end_ip - start_ip + 1

C5_Witness ==
    /\ Scanned
    /\ Len(ping_log) = end_ip
    /\ Unreachable # {}
    /\ reach_order # <<>>

(***************************************************************************)
(* Remaining work of a run: the phases main still has to pass, and within  *)
(* the scan the steps its futures and loops still have to take.            *)
(***************************************************************************)
PhaseRank ==
    CASE pc = "start" -> 6 [] pc = "derive" -> 5 [] pc = "scan" -> 4
      [] pc = "submit" -> 3 [] pc = "collect" -> 2 [] pc = "resolve" -> 1
      [] OTHER -> 0

PhaseWork ==
    IF pc \in {"submit", "collect"}
    THEN 3 * Cardinality(InState("new")) + 2 * Cardinality(InState("queued"))
         + Cardinality(InState("running"))
         + (Cardinality(Futures) - Cardinality(yielded))
    ELSE IF pc = "resolve" THEN Len(reachable_ips) - Len(arp_log)
    ELSE 0

Remaining == PhaseRank * (4 * end_ip + 1) + PhaseWork

\* some step of the scan can be taken: a pool thread can start or finish a
\* probe, or the main thread can submit, collect, return or go on
HasStep ==
    CASE pc = "collect" ->
            \/ early_left # {}
            \/ finished_futures # <<>>
            \/ yielded = Futures
            \/ InState("running") # {}
            \/ \E i \in Futures : CanStart(i)
      [] pc \in {"start", "derive", "scan", "submit", "resolve"} -> TRUE
      [] OTHER -> FALSE

C6_Running ==
    /\ pc = "exited" => ping_log = <<>>
    /\ pc \notin {"done", "exited"} => HasStep
    /\ pc = "done" => report \in {"found", "nothing"}

(***************************************************************************)
(* C6.  Whatever the probes and the lookups do (time out, exit non-zero,   *)
(* raise, fail), the failure becomes data and the scan runs to the end:    *)
(* main never ends by an exception once a probe has started, every state   *)
(* before the end has a next step, every step reduces the remaining work   *)
(* (so the run reaches done), and done comes with a printed report.        *)
(***************************************************************************)
C6_ScanCompletes ==
    /\ C6_Running
    /\ [][C6_Running' /\ Remaining' < Remaining]_vars

C6_Witness ==
    /\ pc = "done"
    /\ Unreachable # {}
    /\ \E k \in 1..Len(arp_log) : arp_log[k].found = <<>>
    /\ report = "found"

(***************************************************************************)
(* C7.  Every device in the device list and in the report has an address   *)
(* of the scan range whose ping answered; no lookup is made for an address *)
(* whose ping did not answer.                                              *)
(***************************************************************************)
C7_DevicesReachableInRange ==
    /\ DeviceIps \subseteq ScanRange \cap replied
    /\ Elems(rpi_devices) \subseteq ScanRange \cap replied
    /\ \A k \in 1..Len(arp_log) : arp_log[k].ip \in replied

C7_Witness ==
    /\ pc = "done"
    /\ devices # <<>>
    /\ Elems(ping_log) \ replied # {}

(***************************************************************************)
(* Vocabulary of C8: what a well-formed MAC is and what its vendor prefix  *)
(* is, stated without the classifier.                                      *)
(***************************************************************************)
HexChars ==
    { "0","1","2","3","4","5","6","7","8","9",
      "a","b","c","d","e","f","A","B","C","D","E","F" }

\* six two-digit hexadecimal octets separated by ':' or '-'
WellFormedMac(mac) ==
    /\ mac # None
    /\ Len(mac) = 17
    /\ \A i \in 1..17 :
         IF i % 3 = 0 THEN mac[i] \in Separators ELSE mac[i] \in HexChars

VendorPrefixes == Elems(RASPBERRY_PI_MAC_PREFIXES)

\* the first three octets in upper case with colons
NormalizedOui(mac) ==
    [i \in 1..8 |-> IF i % 3 = 0 THEN ":" ELSE UpperChar(mac[i])]

\* the verdict the claim describes
ClaimedVerdict(mac) == WellFormedMac(mac) /\ NormalizedOui(mac) \in VendorPrefixes

\* the verdict the classifier gives: the first eight characters, in upper
\* case and as they stand, are one of the prefixes
PrefixVerdict(mac) ==
    /\ mac # None
    /\ Len(mac) >= 8
    /\ \E p \in VendorPrefixes : \A i \in 1..8 : UpperChar(mac[i]) = p[i]

ExamplePiMac ==
    <<"2","8",":","c","d",":","c","1",":","0","0",":","0","0",":","0","1">>

(***************************************************************************)
(* C8.  As claimed: is_raspberry_pi(mac) is true exactly when mac is a     *)
(* well-formed MAC whose first three octets, in upper case with colons,    *)
(* are one of the six prefixes; a missing or malformed MAC gives false.    *)
(***************************************************************************)
C8_ClassifierAsClaimed ==
    \A k \in 1..Len(cl_verdicts) : cl_verdicts[k] = ClaimedVerdict(cl_mac)

(***************************************************************************)
(* C8, as amended.  is_raspberry_pi(mac) is true exactly when mac is not   *)
(* None and its first eight characters, upper-cased, are one of the six    *)
(* prefixes: the separators are not normalised and what follows the        *)
(* prefix is not validated.  Every call gives the same verdict, letter     *)
(* case does not matter, None and '' give false, and on well-formed        *)
(* colon-separated MACs the verdict is the claimed one (true for           *)
(* 28:cd:c1:00:00:01, false for 00:11:22:33:44:55).                        *)
(***************************************************************************)
C8_ClassifierPrefixMatch ==
    \A k \in 1..Len(cl_verdicts) :
        /\ cl_verdicts[k] = PrefixVerdict(cl_mac)
        /\ cl_verdicts[k] = cl_verdicts[1]
        /\ ~Truthy(cl_mac) => cl_verdicts[k] = FALSE
        /\ (WellFormedMac(cl_mac) /\ "-" \notin Elems(cl_mac)) =>
              cl_verdicts[k] = ClaimedVerdict(cl_mac)
        /\ cl_mac = ExamplePiMac => cl_verdicts[k] = TRUE
        /\ cl_mac = ExampleOtherMac => cl_verdicts[k] = FALSE

C8_Witness ==
    /\ cl_mac = ExamplePiMac
    /\ cl_verdicts = <<TRUE, TRUE>>

(***************************************************************************)
(* C9.  At every moment at most `workers` probes are running, and the      *)
(* addresses probed by a finished scan are the scan range, whatever        *)
(* `workers` is.                                                           *)
(***************************************************************************)
C9_PoolBound ==
    /\ Cardinality(InState("running")) <= workers
    /\ Scanned =>
         /\ Elems(ping_log) = ScanRange
         /\ Len(ping_log) = Cardinality(ScanRange)

C9_Witness ==
    /\ workers >= 1
    /\ Cardinality(InState("running")) = workers
    /\ InState("queued") # {}

(***************************************************************************)
(* C10.  As claimed: the list scan_local_network returns holds the         *)
(* addresses whose probe reported reachable, in completion order.          *)
(***************************************************************************)
C10_CompletionOrder == Scanned => scan_result = reach_order

\* addresses of the futures that had finished when as_completed was called
EarlyIps == {ip_addresses[i] : i \in early}

LateOnly(xs) == SelectSeq(xs, LAMBDA x : x \notin EarlyIps)

(***************************************************************************)
(* C10, as amended.  No update is lost: the list scan_local_network        *)
(* returns holds every address whose probe reported reachable exactly once *)
(* and no address whose probe reported unreachable.  The addresses whose   *)
(* probes completed after as_completed was called are in completion        *)
(* order, after those whose probes had completed before, which are in no   *)
(* particular order.                                                       *)
(***************************************************************************)
C10_NoLostUpdate ==
    Scanned =>
        /\ NoDuplicates(scan_result)
        /\ Elems(scan_result) = Elems(reach_order)
        /\ Len(scan_result) = Len(reach_order)
        /\ Elems(scan_result) \cap Unreachable = {}
        /\ LateOnly(scan_result) = LateOnly(reach_order)
        /\ \A j, k \in 1..Len(scan_result) :
             (j < k /\ scan_result[k] \in EarlyIps) => scan_result[j] \in EarlyIps

C10_Witness ==
    /\ Scanned
    /\ scan_result # reach_order
    /\ Elems(scan_result) \ EarlyIps # {}

=============================================================================
